---------------------------- MODULE Spec2Model ----------------------------
(***************************************************************************)
(* A model of the 6502 interpreter core of rs_nes (src/cpu.rs): the flat   *)
(* memory, the addressing-mode resolver, the zero/negative flag updater,   *)
(* load / reset / run and the fetch-decode-execute loop.                   *)
(*                                                                         *)
(* Values keep their Rust widths: u8 is 0..255, u16 is 0..65535.  A panic  *)
(* (index out of bounds, expect on None, todo!, panic!, checked overflow)  *)
(* is a result with panicked = TRUE that carries the object as the panic   *)
(* left it.                                                                *)
(***************************************************************************)
EXTENDS Integers, Sequences, FiniteSets, TLC

VARIABLES
    register_a,       \* CPU.register_a : u8
    register_x,       \* CPU.register_x : u8
    register_y,       \* CPU.register_y : u8
    status,           \* CPU.status : u8
    program_counter,  \* CPU.program_counter : u16
    memory,           \* CPU.memory : [u8; 0xFFFF], kept as its nonzero cells
    overflow_checks,  \* build profile: does integer overflow panic (debug) or wrap (release)
    state,            \* where the caller is: Ready, Fetching (inside run), Halted, Faulted
    calls,            \* number of calls the caller has made
    op,               \* the operation performed last
    arg,              \* its argument
    pre,              \* the CPU as it was when that operation was called
    ret,              \* the value it returned (0 when it returns none)
    instr,            \* the instruction run's loop executed last since run was entered
    prior_op,         \* the operation performed before the last one
    flags_from,       \* the result of the last LDA, TAX or INX since run was entered, -1 if none
    executed          \* the number of loop iterations begun since run was entered

vars == <<register_a, register_x, register_y, status, program_counter, memory,
          overflow_checks, state, calls, op, arg, pre, ret, instr, prior_op,
          flags_from, executed>>

-----------------------------------------------------------------------------
(* Widths and bit operations *)

U8 == 0 .. 255
U16 == 0 .. 65535

RECURSIVE AndBits(_, _, _)
AndBits(a, b, n) ==
    IF n = 0 THEN 0
    ELSE (a % 2) * (b % 2) + 2 * AndBits(a \div 2, b \div 2, n - 1)

RECURSIVE OrBits(_, _, _)
OrBits(a, b, n) ==
    IF n = 0 THEN 0
    ELSE (IF a % 2 = 1 \/ b % 2 = 1 THEN 1 ELSE 0)
         + 2 * OrBits(a \div 2, b \div 2, n - 1)

\* a & b and a | b on u8 / u16
BitAnd(a, b) == AndBits(a, b, 16)
BitOr(a, b) == OrBits(a, b, 16)

\* bit i of v
Bit(v, i) == (v \div (2 ^ i)) % 2

\* u8::wrapping_add and u16::wrapping_add
WrappingAdd8(a, b) == (a + b) % 256
WrappingAdd16(a, b) == (a + b) % 65536

\* the operator + on u16: panics on overflow when the build checks overflow,
\* wraps otherwise
AddU16(a, b) ==
    [panicked |-> overflow_checks /\ a + b > 65535, val |-> (a + b) % 65536]

-----------------------------------------------------------------------------
(* The CPU object *)

\* length of the memory array: [u8; 0xFFFF]
MemSize == 65535

\* where load copies the program, and the reset vector
LoadAddress == \h8000
ResetVector == \hFFFC

\* the array [0; 0xFFFF]: no nonzero cell
ZeroMemory == [i \in {} |-> 0]

\* memory[i] for an index inside the array
Cell(m, i) == IF i \in DOMAIN m THEN m[i] ELSE 0

\* the array m with m[i] = d
SetCell(m, i, d) ==
    IF d = 0
    THEN [j \in DOMAIN m \ {i} |-> m[j]]
    ELSE [j \in DOMAIN m \cup {i} |-> IF j = i THEN d ELSE m[j]]

\* CPU::new
new ==
    [register_a |-> 0, register_x |-> 0, register_y |-> 0, status |-> 0,
     program_counter |-> 0, memory |-> ZeroMemory]

\* the object the variables hold
Self ==
    [register_a |-> register_a, register_x |-> register_x,
     register_y |-> register_y, status |-> status,
     program_counter |-> program_counter, memory |-> memory]

\* the variables hold c in the next state
Becomes(c) ==
    /\ register_a' = c.register_a
    /\ register_x' = c.register_x
    /\ register_y' = c.register_y
    /\ status' = c.status
    /\ program_counter' = c.program_counter
    /\ memory' = c.memory

\* the variables hold c now
Holds(c) ==
    /\ register_a = c.register_a
    /\ register_x = c.register_x
    /\ register_y = c.register_y
    /\ status = c.status
    /\ program_counter = c.program_counter
    /\ memory = c.memory

Panic(c) == [panicked |-> TRUE, cpu |-> c, val |-> 0]
Done(c) == [panicked |-> FALSE, cpu |-> c, val |-> 0]
Value(c, v) == [panicked |-> FALSE, cpu |-> c, val |-> v]

-----------------------------------------------------------------------------
(* Memory: impl Mem for CPU, and the trait's word operations *)

\* self.memory[address as usize]: an index past the array panics
mem_read(self, address) ==
    IF address < MemSize
    THEN Value(self, Cell(self.memory, address))
    ELSE Panic(self)

\* self.memory[address as usize] = data
mem_write(self, address, data) ==
    IF address < MemSize
    THEN Done([self EXCEPT !.memory = SetCell(self.memory, address, data)])
    ELSE Panic(self)

\* lo at position, hi at position + 1, (hi << 8) | lo
mem_read_u16(self, position) ==
    LET lo == mem_read(self, position)
        next == AddU16(position, 1)
        hi == mem_read(self, next.val)
    IN  IF lo.panicked \/ next.panicked \/ hi.panicked
        THEN Panic(self)
        ELSE Value(self, BitOr((hi.val * 256) % 65536, lo.val))

\* lo = data & 0xff to position, then hi = data >> 8 to position + 1
mem_write_u16(self, position, data) ==
    LET hi == (data \div 256) % 256
        lo == BitAnd(data, 255) % 256
        w1 == mem_write(self, position, lo)
        next == AddU16(position, 1)
        w2 == mem_write(w1.cpu, next.val, hi)
    IN  IF w1.panicked THEN Panic(self)
        ELSE IF next.panicked THEN Panic(w1.cpu)
        ELSE w2

\* pub fn write_memory
write_memory(self, address, data) == mem_write(self, address, data)

-----------------------------------------------------------------------------
(* Operand-address resolution *)

AddressingMode ==
    {"Immediate", "ZeroPage", "ZeroPageX", "ZeroPageY", "Absolute",
     "AbsoluteX", "AbsoluteY", "IndirectX", "IndirectY", "NoneAddressing"}

\* zero-page indexing with the sum taken in 16 bits: no wrap within page 0
ZeroPageIndexedNoWrap(self, index) ==
    LET position == mem_read(self, self.program_counter)
    IN  IF position.panicked THEN Panic(self)
        ELSE Value(self, position.val + index)

\* ZeroPageX / ZeroPageY: position.wrapping_add(index) as u16
ZeroPageIndexed(self, index) ==
    LET position == mem_read(self, self.program_counter)
    IN  IF position.panicked THEN Panic(self)
        ELSE Value(self, WrappingAdd8(position.val, index))

\* absolute indexing with the index added to the low byte alone: the result
\* stays in the base's page
AbsoluteIndexedSamePage(self, index) ==
    LET base == mem_read_u16(self, self.program_counter)
    IN  IF base.panicked THEN Panic(self)
        ELSE Value(self, (base.val \div 256) * 256 + ((base.val + index) % 256))

\* AbsoluteX / AbsoluteY: base.wrapping_add(index as u16)
AbsoluteIndexed(self, index) ==
    LET base == mem_read_u16(self, self.program_counter)
    IN  IF base.panicked THEN Panic(self)
        ELSE Value(self, WrappingAdd16(base.val, index))

\* IndirectX with the high byte read at pointer + 1 taken in 16 bits
IndirectXNoWrap(self) ==
    LET base == mem_read(self, self.program_counter)
        pointer == WrappingAdd8(base.val, self.register_x)
        lo == mem_read(self, pointer)
        hi == mem_read(self, pointer + 1)
    IN  IF base.panicked \/ lo.panicked \/ hi.panicked THEN Panic(self)
        ELSE Value(self, BitOr((hi.val * 256) % 65536, lo.val))

\* IndirectX: the word at pointer = base + X (u8), its high byte at pointer + 1 (u8)
IndirectX(self) ==
    LET base == mem_read(self, self.program_counter)
        pointer == WrappingAdd8(base.val, self.register_x)
        lo == mem_read(self, pointer)
        hi == mem_read(self, WrappingAdd8(pointer, 1))
    IN  IF base.panicked \/ lo.panicked \/ hi.panicked THEN Panic(self)
        ELSE Value(self, BitOr((hi.val * 256) % 65536, lo.val))

\* IndirectY: the word at base, its high byte at base + 1 (u8), plus Y (u16)
IndirectY(self) ==
    LET base == mem_read(self, self.program_counter)
        lo == mem_read(self, base.val)
        hi == mem_read(self, WrappingAdd8(base.val, 1))
        deref_base == BitOr((hi.val * 256) % 65536, lo.val)
    IN  IF base.panicked \/ lo.panicked \/ hi.panicked THEN Panic(self)
        ELSE Value(self, WrappingAdd16(deref_base, self.register_y))

\* a resolver that consumes the Immediate operand: it moves the counter on
get_operand_address_consuming(self, mode) ==
    CASE mode = "Immediate" ->
             Value([self EXCEPT !.program_counter =
                                    WrappingAdd16(self.program_counter, 1)],
                   self.program_counter)
      [] mode = "ZeroPage" -> mem_read(self, self.program_counter)
      [] mode = "Absolute" -> mem_read_u16(self, self.program_counter)
      [] mode = "ZeroPageX" -> ZeroPageIndexed(self, self.register_x)
      [] mode = "ZeroPageY" -> ZeroPageIndexed(self, self.register_y)
      [] mode = "AbsoluteX" -> AbsoluteIndexed(self, self.register_x)
      [] mode = "AbsoluteY" -> AbsoluteIndexed(self, self.register_y)
      [] mode = "IndirectX" -> IndirectX(self)
      [] mode = "IndirectY" -> IndirectY(self)
      [] mode = "NoneAddressing" -> Panic(self)

get_operand_address(self, mode) ==
    CASE mode = "Immediate" -> Value(self, self.program_counter)
      [] mode = "ZeroPage" -> mem_read(self, self.program_counter)
      [] mode = "Absolute" -> mem_read_u16(self, self.program_counter)
      [] mode = "ZeroPageX" -> ZeroPageIndexed(self, self.register_x)
      [] mode = "ZeroPageY" -> ZeroPageIndexed(self, self.register_y)
      [] mode = "AbsoluteX" -> AbsoluteIndexed(self, self.register_x)
      [] mode = "AbsoluteY" -> AbsoluteIndexed(self, self.register_y)
      [] mode = "IndirectX" -> IndirectX(self)
      [] mode = "IndirectY" -> IndirectY(self)
      [] mode = "NoneAddressing" -> Panic(self)

-----------------------------------------------------------------------------
(* Flags and instruction handlers *)

\* the flag updater with the zero flag cleared by mask 0b1111_1100, which
\* clears the carry flag too
update_flags_clearing_carry(self, result) ==
    LET s1 == IF result = 0
              THEN BitOr(self.status, 2)
              ELSE BitAnd(self.status, 252)
        s2 == IF BitAnd(result, 128) # 0
              THEN BitOr(s1, 128)
              ELSE BitAnd(s1, 127)
    IN  [self EXCEPT !.status = s2]

\* bit 1 (zero) and bit 7 (negative) of status from result
update_zero_and_negative_flags(self, result) ==
    LET s1 == IF result = 0
              THEN BitOr(self.status, 2)
              ELSE BitAnd(self.status, 253)
        s2 == IF BitAnd(result, 128) # 0
              THEN BitOr(s1, 128)
              ELSE BitAnd(s1, 127)
    IN  [self EXCEPT !.status = s2]

\* lda that sets the flags from the accumulator's old value
lda_flags_of_old_value(self, mode) ==
    LET address == get_operand_address(self, mode)
        value == mem_read(self, address.val)
    IN  IF address.panicked \/ value.panicked THEN Panic(self)
        ELSE Done(update_zero_and_negative_flags(
                     [self EXCEPT !.register_a = value.val], self.register_a))

lda(self, mode) ==
    LET address == get_operand_address(self, mode)
        value == mem_read(self, address.val)
    IN  IF address.panicked \/ value.panicked THEN Panic(self)
        ELSE Done(update_zero_and_negative_flags(
                     [self EXCEPT !.register_a = value.val], value.val))

\* a store that sets the flags from the stored value
sta_updates_flags(self, mode) ==
    LET address == get_operand_address(self, mode)
    IN  IF address.panicked THEN Panic(self)
        ELSE mem_write(update_zero_and_negative_flags(self, self.register_a),
                       address.val, self.register_a)

sta(self, mode) ==
    LET address == get_operand_address(self, mode)
    IN  IF address.panicked THEN Panic(self)
        ELSE mem_write(self, address.val, self.register_a)

\* a transfer in the wrong direction: X into A
tax_reversed(self) ==
    update_zero_and_negative_flags(
        [self EXCEPT !.register_a = self.register_x], self.register_x)

tax(self) ==
    update_zero_and_negative_flags(
        [self EXCEPT !.register_x = self.register_a], self.register_a)

\* an increment that stops at 0xFF instead of wrapping
inx_saturating(self) ==
    LET x == IF self.register_x = 255 THEN 255 ELSE self.register_x + 1
    IN  update_zero_and_negative_flags([self EXCEPT !.register_x = x], x)

\* an increment that counts in Y as well
inx_increments_y(self) ==
    LET x == WrappingAdd8(self.register_x, 1)
    IN  update_zero_and_negative_flags(
            [self EXCEPT !.register_x = x,
                         !.register_y = WrappingAdd8(self.register_y, 1)], x)

inx(self) ==
    LET x == WrappingAdd8(self.register_x, 1)
    IN  update_zero_and_negative_flags([self EXCEPT !.register_x = x], x)

-----------------------------------------------------------------------------
(* The opcode table (crate::opcodes, consumed by run): addressing mode and *)
(* total byte length of each opcode run has a handler for, and of NOP      *)
(* (0xEA), an opcode of the table that run has no handler for.             *)

OpCode(mode, len) == [mode |-> mode, len |-> len]

OPCODES_MAP ==
    [code \in {\h00, \hAA, \hE8, \hEA,
               \hA9, \hA5, \hB5, \hAD, \hBD, \hB9, \hA1, \hB1,
               \h85, \h95, \h8D, \h9D, \h99, \h81, \h91} |->
        CASE code \in {\h00, \hAA, \hE8, \hEA} -> OpCode("NoneAddressing", 1)
          [] code = \hA9 -> OpCode("Immediate", 2)
          [] code \in {\hA5, \h85} -> OpCode("ZeroPage", 2)
          [] code \in {\hB5, \h95} -> OpCode("ZeroPageX", 2)
          [] code \in {\hAD, \h8D} -> OpCode("Absolute", 3)
          [] code \in {\hBD, \h9D} -> OpCode("AbsoluteX", 3)
          [] code \in {\hB9, \h99} -> OpCode("AbsoluteY", 3)
          [] code \in {\hA1, \h81} -> OpCode("IndirectX", 2)
          [] code \in {\hB1, \h91} -> OpCode("IndirectY", 2)]

LdaCodes == {\hA9, \hA5, \hB5, \hAD, \hBD, \hB9, \hA1, \hB1}
StaCodes == {\h85, \h95, \h8D, \h9D, \h99, \h81, \h91}

-----------------------------------------------------------------------------
(* load, reset and one iteration of run's loop *)

\* A program (Vec<u8>) is written as its leading bytes, then pad zero bytes,
\* then its last bytes, so that a program of tens of thousands of bytes stays
\* small.
Program(bytes, pad, tail) == [bytes |-> bytes, pad |-> pad, tail |-> tail]
ProgramLen(p) == Len(p.bytes) + p.pad + Len(p.tail)
ProgramByte(p, i) ==
    IF i < Len(p.bytes) THEN p.bytes[i + 1]
    ELSE IF i < Len(p.bytes) + p.pad THEN 0
    ELSE p.tail[i - Len(p.bytes) - p.pad + 1]

\* the indices of a program's nonzero bytes
NonZeroIndices(p) ==
    {k \in 0 .. (Len(p.bytes) - 1) : p.bytes[k + 1] # 0}
    \cup {Len(p.bytes) + p.pad + k : k \in {n \in 0 .. (Len(p.tail) - 1) : p.tail[n + 1] # 0}}

\* memory[start .. start + program.len()].copy_from_slice(&program[..])
CopyFromSlice(m, start, p) ==
    LET covered == start .. (start + ProgramLen(p) - 1)
        nonzero == {start + i : i \in NonZeroIndices(p)}
    IN  [j \in (DOMAIN m \ covered) \cup nonzero |->
            IF j \in covered THEN ProgramByte(p, j - start) ELSE m[j]]

\* load with the vector written high byte first
load_big_endian_vector(self, program) ==
    IF LoadAddress + ProgramLen(program) > MemSize
    THEN Panic(self)
    ELSE mem_write_u16(
             [self EXCEPT !.memory = CopyFromSlice(self.memory, LoadAddress, program)],
             ResetVector, (LoadAddress % 256) * 256 + (LoadAddress \div 256))

\* the slice's end past the array panics before anything is copied
load(self, program) ==
    IF LoadAddress + ProgramLen(program) > MemSize
    THEN Panic(self)
    ELSE mem_write_u16(
             [self EXCEPT !.memory = CopyFromSlice(self.memory, LoadAddress, program)],
             ResetVector, LoadAddress)

\* reset that leaves the status register as it was
reset_keeps_status(self) ==
    LET zeroed == [self EXCEPT !.register_a = 0, !.register_x = 0,
                               !.register_y = 0]
        vector == mem_read_u16(zeroed, ResetVector)
    IN  IF vector.panicked THEN Panic(zeroed)
        ELSE Done([zeroed EXCEPT !.program_counter = vector.val])

reset(self) ==
    LET zeroed == [self EXCEPT !.register_a = 0, !.register_x = 0,
                               !.register_y = 0, !.status = 0]
        vector == mem_read_u16(zeroed, ResetVector)
    IN  IF vector.panicked THEN Panic(zeroed)
        ELSE Done([zeroed EXCEPT !.program_counter = vector.val])

\* the match without its halt arm: 0x00 falls through to todo!()
DispatchWithoutHalt(self, code, opcode) ==
    CASE code \in LdaCodes -> lda(self, opcode.mode) @@ [returned |-> FALSE]
      [] code \in StaCodes -> sta(self, opcode.mode) @@ [returned |-> FALSE]
      [] code = \hAA -> Done(tax(self)) @@ [returned |-> FALSE]
      [] code = \hE8 -> Done(inx(self)) @@ [returned |-> FALSE]
      [] OTHER -> Panic(self) @@ [returned |-> FALSE]

\* the match with return in the TAX arm as well
DispatchTaxReturns(self, code, opcode) ==
    CASE code \in LdaCodes -> lda(self, opcode.mode) @@ [returned |-> FALSE]
      [] code \in StaCodes -> sta(self, opcode.mode) @@ [returned |-> FALSE]
      [] code = \hAA -> Done(tax(self)) @@ [returned |-> TRUE]
      [] code = \hE8 -> Done(inx(self)) @@ [returned |-> FALSE]
      [] code = \h00 -> Done(self) @@ [returned |-> TRUE]
      [] OTHER -> Panic(self) @@ [returned |-> FALSE]

\* the match with a default arm that does nothing instead of todo!()
DispatchSkipsUnhandled(self, code, opcode) ==
    CASE code \in LdaCodes -> lda(self, opcode.mode) @@ [returned |-> FALSE]
      [] code \in StaCodes -> sta(self, opcode.mode) @@ [returned |-> FALSE]
      [] code = \hAA -> Done(tax(self)) @@ [returned |-> FALSE]
      [] code = \hE8 -> Done(inx(self)) @@ [returned |-> FALSE]
      [] code = \h00 -> Done(self) @@ [returned |-> TRUE]
      [] OTHER -> Done(self) @@ [returned |-> FALSE]

\* the handler run's match selects for code; returned marks the halt arm
Dispatch(self, code, opcode) ==
    CASE code \in LdaCodes -> lda(self, opcode.mode) @@ [returned |-> FALSE]
      [] code \in StaCodes -> sta(self, opcode.mode) @@ [returned |-> FALSE]
      [] code = \hAA -> Done(tax(self)) @@ [returned |-> FALSE]
      [] code = \hE8 -> Done(inx(self)) @@ [returned |-> FALSE]
      [] code = \h00 -> Done(self) @@ [returned |-> TRUE]
      [] OTHER -> Panic(self) @@ [returned |-> FALSE]

\* the counter moved by the whole length, the opcode byte counted twice
AdvanceWholeLength(self, program_counter_state, opcode) ==
    IF program_counter_state = self.program_counter
    THEN Done([self EXCEPT !.program_counter =
                   WrappingAdd16(self.program_counter, opcode.len)])
         @@ [returned |-> FALSE]
    ELSE Done(self) @@ [returned |-> FALSE]

\* a counter set back to the opcode just executed
AdvanceRewinds(self, program_counter_state, opcode) ==
    Done([self EXCEPT !.program_counter =
              (program_counter_state + 65535) % 65536])
    @@ [returned |-> FALSE]

\* the counter after the handler: moved by len - 1 when the handler left it alone
Advance(self, program_counter_state, opcode) ==
    IF program_counter_state = self.program_counter
    THEN LET next == AddU16(self.program_counter, opcode.len - 1)
         IN  IF next.panicked THEN Panic(self) @@ [returned |-> FALSE]
             ELSE Done([self EXCEPT !.program_counter = next.val])
                  @@ [returned |-> FALSE]
    ELSE Done(self) @@ [returned |-> FALSE]

\* one pass through the body of run's loop
run_iteration(self) ==
    LET code == mem_read(self, self.program_counter)
        next == AddU16(self.program_counter, 1)
        fetched == [self EXCEPT !.program_counter = next.val]
        program_counter_state == next.val
    IN  IF code.panicked \/ next.panicked
        THEN Panic(self) @@ [returned |-> FALSE]
        ELSE IF code.val \notin DOMAIN OPCODES_MAP
        THEN Panic(fetched) @@ [returned |-> FALSE]
        ELSE LET opcode == OPCODES_MAP[code.val]
                 handled == Dispatch(fetched, code.val, opcode)
             IN  IF handled.panicked \/ handled.returned
                 THEN handled
                 ELSE Advance(handled.cpu, program_counter_state, opcode)

-----------------------------------------------------------------------------
(* The caller: one action per call on the CPU *)

\* the most calls a caller makes on one CPU
MaxCalls == 3

NoInstr == [address |-> -1, code |-> -1, before |-> new]

CanCall == state \in {"Ready", "Halted"} /\ calls < MaxCalls

\* a call that ran to its end (or to its panic) with result r
Returns(r, name, a) ==
    /\ Becomes(r.cpu)
    /\ state' = IF r.panicked THEN "Faulted" ELSE "Ready"
    /\ calls' = calls + 1
    /\ op' = name
    /\ arg' = a
    /\ pre' = Self
    /\ ret' = r.val
    /\ prior_op' = op
    /\ UNCHANGED <<overflow_checks, instr, flags_from, executed>>

\* a caller holding CPU c that has made no call yet, under either build profile
Starts(c) ==
    /\ Holds(c)
    /\ overflow_checks \in BOOLEAN
    /\ state = "Ready"
    /\ calls = 0
    /\ op = "new"
    /\ arg = 0
    /\ pre = c
    /\ ret = 0
    /\ instr = NoInstr
    /\ prior_op = "none"
    /\ flags_from = -1
    /\ executed = 0

\* the CPU as the constructor leaves it
Init == Starts(new)

\* the bytes and addresses a caller pokes, and the registers it assigns
PokeAddresses == {\h0010, \h8001, \hFFFC, \hFFFF}
PokeBytes == {\h01, \hE8}
RegisterPresets ==
    {[register_a |-> \h42, register_x |-> \hFF, register_y |-> \h01,
      status |-> \hFF, program_counter |-> \h8000],
     [register_a |-> \h80, register_x |-> \h01, register_y |-> \hFF,
      status |-> \h7D, program_counter |-> \h0010]}

\* pub fn write_memory
WriteMemory(address, data) ==
    /\ CanCall
    /\ Returns(write_memory(Self, address, data), "write_memory",
               [address |-> address, data |-> data])

\* the register fields are pub: the caller assigns them
SetRegisters(r) ==
    /\ CanCall
    /\ Returns(Done([register_a |-> r.register_a, register_x |-> r.register_x,
                      register_y |-> r.register_y, status |-> r.status,
                      program_counter |-> r.program_counter, memory |-> memory]),
               "set_registers", r)

LdaImmediate(v) == <<\hA9, v, \h00>>
LdaTax(v) == <<\hA9, v, \hAA, \h00>>
InxInx == <<\hE8, \hE8, \h00>>
\* every handled opcode once, the store operands away from the program
EveryOpcode ==
    <<\hA9, \h81, \hA5, \h10, \hB5, \h10, \hAD, \h01, \h80, \hBD, \h00, \h02,
      \hB9, \h00, \h02, \hA1, \h10, \hB1, \h10, \hAA, \hE8,
      \h85, \h10, \h95, \h10, \h8D, \h00, \h02, \h9D, \h00, \h02,
      \h99, \h10, \h02, \h81, \h20, \h91, \h22, \h00>>
\* a store into the reset vector, and an opcode the table does not hold
StoreVector == <<\hA9, \h80, \h8D, \hFD, \hFF, \h00>>
Unknown == <<\hE8, \h02, \h00>>
\* an opcode the table holds and run has no handler for
Unhandled == <<\hA9, \h80, \hEA, \h00>>

\* programs up to the end of the address space: the longest that leaves the
\* reset vector alone, the first that reaches it, the longest the array
\* holds, and the 0x8000 bytes up to 0xFFFF
Short(bytes) == Program(bytes, 0, << >>)
Long(len) == Program(LdaTax(\hC0), len - 6, <<\hE8, \hAA>>)
Programs ==
    {Short(<< >>), Short(LdaImmediate(\h05)), Short(InxInx), Short(EveryOpcode),
     Short(StoreVector), Short(Unknown), Short(Unhandled),
     Long(\h7FFC), Long(\h7FFD), Long(\h7FFF), Long(\h8000)}

Load(program) ==
    /\ CanCall
    /\ Returns(load(Self, program), "load", program)

Reset ==
    /\ CanCall
    /\ Returns(reset(Self), "reset", 0)

\* run is entered: its loop is RunStep
Run ==
    /\ CanCall
    /\ state' = "Fetching"
    /\ calls' = calls + 1
    /\ op' = "run"
    /\ arg' = 0
    /\ pre' = Self
    /\ ret' = 0
    /\ instr' = NoInstr
    /\ prior_op' = op
    /\ flags_from' = -1
    /\ executed' = 0
    /\ UNCHANGED <<register_a, register_x, register_y, status, program_counter,
                   memory, overflow_checks>>

\* load, reset, and run is entered
LoadAndRun(program) ==
    /\ CanCall
    /\ LET loaded == load(Self, program)
           restarted == reset(loaded.cpu)
       IN  /\ IF loaded.panicked THEN Becomes(loaded.cpu) ELSE Becomes(restarted.cpu)
           /\ state' = IF loaded.panicked \/ restarted.panicked
                       THEN "Faulted" ELSE "Fetching"
    /\ calls' = calls + 1
    /\ op' = "load_and_run"
    /\ arg' = program
    /\ pre' = Self
    /\ ret' = 0
    /\ instr' = NoInstr
    /\ prior_op' = op
    /\ flags_from' = -1
    /\ executed' = 0
    /\ UNCHANGED overflow_checks

\* one iteration of run's loop: a panic faults, the halt arm returns
RunStep ==
    /\ state = "Fetching"
    /\ LET it == run_iteration(Self)
       IN  /\ Becomes(it.cpu)
           /\ state' = IF it.panicked THEN "Faulted"
                       ELSE IF it.returned THEN "Halted" ELSE "Fetching"
    /\ instr' = [address |-> program_counter,
                 code |-> IF program_counter < MemSize
                          THEN Cell(memory, program_counter) ELSE -1,
                 before |-> Self]
    /\ flags_from' = IF state' = "Faulted" THEN flags_from
                     ELSE IF instr'.code \in LdaCodes THEN register_a'
                     ELSE IF instr'.code \in {\hAA, \hE8} THEN register_x'
                     ELSE flags_from
    /\ executed' = executed + 1
    /\ UNCHANGED <<overflow_checks, calls, op, arg, pre, ret, prior_op>>

Next ==
    \/ \E address \in PokeAddresses, data \in PokeBytes : WriteMemory(address, data)
    \/ \E r \in RegisterPresets : SetRegisters(r)
    \/ \E program \in Programs : Load(program)
    \/ Reset
    \/ Run
    \/ \E program \in Programs : LoadAndRun(program)
    \/ RunStep

Spec == Init /\ [][Next]_vars

-----------------------------------------------------------------------------
(* load_and_run as a caller's single call, for every operand byte *)

\* a CPU a caller has used before: registers assigned, memory poked where
\* the program and the reset vector will go
UsedCPU ==
    LET poked == write_memory(write_memory(write_memory(new,
                     \h8001, \hE8).cpu, \h8002, \hE8).cpu, \hFFFD, \h12).cpu
    IN  [poked EXCEPT !.register_a = \h42, !.register_x = \hFF,
                      !.register_y = \h01, !.status = \hFF,
                      !.program_counter = \h1234]

CallerStates == {new, UsedCPU}

OneCallPrograms ==
    {Short(LdaImmediate(v)) : v \in U8} \cup {Short(LdaTax(v)) : v \in U8}
    \cup {Short(InxInx)}

InitLoadAndRun == \E c \in CallerStates : Starts(c)

LoadAndRunOnce(program) == calls = 0 /\ LoadAndRun(program)

NextLoadAndRun ==
    \/ \E program \in OneCallPrograms : LoadAndRunOnce(program)
    \/ RunStep

SpecLoadAndRun == InitLoadAndRun /\ [][NextLoadAndRun]_vars

-----------------------------------------------------------------------------
(* The memory operations called one after another on a new CPU *)

MemAddresses == {\h0000, \h00FF, \hFFFC, \hFFFE, \hFFFF}
MemBytes == {\h01, \hFF}
MemWords == {\h1234, \hFF00, \h0080}

MemRead(address) ==
    /\ CanCall
    /\ Returns(mem_read(Self, address), "mem_read", address)

MemReadU16(position) ==
    /\ CanCall
    /\ Returns(mem_read_u16(Self, position), "mem_read_u16", position)

MemWriteU16(position, data) ==
    /\ CanCall
    /\ Returns(mem_write_u16(Self, position, data), "mem_write_u16",
               [position |-> position, data |-> data])

NextMem ==
    \/ \E address \in MemAddresses, data \in MemBytes : WriteMemory(address, data)
    \/ \E address \in MemAddresses : MemRead(address)
    \/ \E position \in MemAddresses, data \in MemWords : MemWriteU16(position, data)
    \/ \E position \in MemAddresses : MemReadU16(position)

SpecMem == Init /\ [][NextMem]_vars

-----------------------------------------------------------------------------
(* The flag updater applied to every status and every result *)

InitFlags == \E s \in U8 : Starts([new EXCEPT !.status = s])

UpdateFlags(result) ==
    /\ calls = 0
    /\ CanCall
    /\ Returns(Done(update_zero_and_negative_flags(Self, result)),
               "update_zero_and_negative_flags", result)

NextFlags == \E result \in U8 : UpdateFlags(result)

SpecFlags == InitFlags /\ [][NextFlags]_vars

-----------------------------------------------------------------------------
(* The resolver applied to CPUs whose operand, index registers and zero    *)
(* page are drawn from the interesting values                              *)

\* a memory whose cells 0x0000 .. 0x0101 all differ from their neighbours
\* and where 0x0000 and 0x0100 differ
Pattern(a) == IF a < 256 THEN (a * 7 + 3) % 256 ELSE (a * 7 + 131) % 256
PatternMemory == [a \in {b \in 0 .. 257 : Pattern(b) # 0} |-> Pattern(a)]

OperandBytes == {\h00, \h01, \h7F, \h80, \hFE, \hFF}
HighBytes == {\h00, \h12, \hFF}
IndexValues == {\h00, \h01, \h80, \hFF}
CounterValues == {\h0010, \h8001, \hFFFD, \hFFFE, \hFFFF}

\* the pattern with the operand bytes lo, hi written at the counter, as far
\* as the array goes
ResolverInput(counter, lo, hi, x, y) ==
    LET m1 == IF counter < MemSize THEN SetCell(PatternMemory, counter, lo)
              ELSE PatternMemory
        m2 == IF counter + 1 < MemSize THEN SetCell(m1, counter + 1, hi) ELSE m1
    IN  [new EXCEPT !.register_x = x, !.register_y = y,
                    !.program_counter = counter, !.memory = m2]

InitResolve ==
    \E counter \in CounterValues, lo \in OperandBytes, hi \in HighBytes,
       x \in IndexValues, y \in IndexValues :
        Starts(ResolverInput(counter, lo, hi, x, y))

Resolve(mode) ==
    /\ calls = 0
    /\ CanCall
    /\ Returns(get_operand_address(Self, mode), "get_operand_address", mode)

\* the same resolution once more, on the CPU the first one left
ResolveAgain(mode) ==
    /\ calls = 1
    /\ CanCall
    /\ op = "get_operand_address"
    /\ arg = mode
    /\ Returns(get_operand_address(Self, mode), "get_operand_address", mode)

NextResolve == \E mode \in AddressingMode : Resolve(mode) \/ ResolveAgain(mode)

SpecResolve == InitResolve /\ [][NextResolve]_vars

-----------------------------------------------------------------------------
(* run alone, from any memory and registers: SpecRun. The loop of run is   *)
(* never left standing: while run is inside it, the next iteration begins. *)
(* Every RunStep, and no other step, raises executed, so the fairness is   *)
(* stated on that count.                                                   *)

\* memory holding bytes from address at on
Image(at, bytes) ==
    [i \in {at + k - 1 : k \in {n \in 1 .. Len(bytes) : bytes[n] # 0}} |->
         bytes[i - at + 1]]

\* increments up to the last cell of the array
InxToTheEnd == [i \in \hFF00 .. (MemSize - 1) |-> \hE8]
\* a store that replaces the halt after it by an increment
SelfModifying == <<\hA9, \hE8, \h8D, \h05, \h80, \h00, \h00>>
\* a store into the reset vector, a store to 0xFFFF
StoreIntoVector == <<\hA9, \h55, \h8D, \hFC, \hFF, \h00>>
StoreAtTop == <<\hA9, \h42, \h8D, \hFF, \hFF, \h00>>
\* a three-byte instruction whose operand runs past the array
Straddling == <<\hAD, \h10>>

RunImages ==
    {ZeroMemory,
     Image(LoadAddress, EveryOpcode) @@ InxToTheEnd,
     Image(LoadAddress, SelfModifying) @@ Image(\hFFFD, Straddling),
     Image(LoadAddress, StoreIntoVector) @@ Image(ResetVector, <<\h00, \h80>>),
     Image(LoadAddress, StoreAtTop)}

RunCounters == {\h0000, LoadAddress, \hFF00, \hFFFD, \hFFFF}

RunRegisters ==
    {[register_a |-> 0, register_x |-> 0, register_y |-> 0, status |-> 0],
     [register_a |-> \h42, register_x |-> \hFF, register_y |-> \h01,
      status |-> \hFF],
     [register_a |-> \h80, register_x |-> \h01, register_y |-> \hFF,
      status |-> \h7D]}

InitRun ==
    \E image \in RunImages, counter \in RunCounters, r \in RunRegisters :
        Starts([register_a |-> r.register_a, register_x |-> r.register_x,
                register_y |-> r.register_y, status |-> r.status,
                program_counter |-> counter, memory |-> image])

RunOnce == calls = 0 /\ Run

NextRun == RunOnce \/ RunStep

\* the loop begins its next iteration
Iterates == state = "Fetching" /\ executed' = executed + 1

SpecRun == InitRun /\ [][NextRun]_vars /\ WF_executed(Iterates)

-----------------------------------------------------------------------------
(* Claims *)

SameRegisters(c, d) ==
    /\ c.register_a = d.register_a
    /\ c.register_x = d.register_x
    /\ c.register_y = d.register_y
    /\ c.status = d.status
    /\ c.program_counter = d.program_counter

\* the little-endian word a memory holds at address and address + 1
WordAt(m, address) == Cell(m, address) + 256 * Cell(m, address + 1)

\* C3: while run's loop goes on, the program counter is the address of the
\* instruction executed last plus that instruction's length in the opcode table
C3_CounterPastInstruction ==
    (state = "Fetching" /\ instr.address >= 0) =>
        /\ instr.code \in DOMAIN OPCODES_MAP
        /\ instr.code \in LdaCodes \cup StaCodes \cup {\hAA, \hE8}
        /\ program_counter = instr.address + OPCODES_MAP[instr.code].len

\* a three-byte store has been executed and the loop goes on
C3_Witness ==
    /\ state = "Fetching"
    /\ instr.code = \h99
    /\ program_counter = instr.address + 3

\* C9: reset returns with A, X, Y and status 0, the program counter the word
\* at 0xFFFC-0xFFFD, and memory as it was
C9_ResetZeroesAndLoadsVector ==
    op = "reset" =>
        /\ state = "Ready"
        /\ register_a = 0 /\ register_x = 0 /\ register_y = 0 /\ status = 0
        /\ program_counter = WordAt(pre.memory, ResetVector)
        /\ memory = pre.memory

\* reset of a CPU with nonzero registers and a written reset vector
C9_Witness ==
    /\ op = "reset"
    /\ pre.register_a # 0 /\ pre.register_x # 0 /\ pre.register_y # 0
    /\ pre.status # 0
    /\ WordAt(pre.memory, ResetVector) # 0
    /\ program_counter # pre.program_counter

\* the indices of the loaded program at which memory and program can differ:
\* those of its leading and last bytes, and those of the zero bytes between
\* where memory holds a nonzero cell (elsewhere both are 0)
ComparedIndices ==
    (0 .. (Len(arg.bytes) - 1))
    \cup ((Len(arg.bytes) + arg.pad) .. (ProgramLen(arg) - 1))
    \cup {j - LoadAddress :
            j \in {k \in DOMAIN memory :
                     k >= LoadAddress /\ k < LoadAddress + ProgramLen(arg)}}

\* load of a program of at most limit bytes returns with the program at
\* 0x8000, the reset vector 0x8000, and the registers and every other byte
\* as they were
LoadedAsClaimed(limit) ==
    (op = "load" /\ ProgramLen(arg) <= limit) =>
        /\ state = "Ready"
        /\ \A i \in ComparedIndices :
               Cell(memory, LoadAddress + i) = ProgramByte(arg, i)
        /\ WordAt(memory, ResetVector) = LoadAddress
        /\ SameRegisters(Self, pre)
        /\ \A j \in DOMAIN memory \cup DOMAIN pre.memory :
               (/\ j \notin LoadAddress .. (LoadAddress + ProgramLen(arg) - 1)
                /\ j \notin {ResetVector, ResetVector + 1})
               => Cell(memory, j) = Cell(pre.memory, j)

\* C10 as stated: every program of 0 to 0x8000 bytes is loaded as claimed
C10_Original == LoadedAsClaimed(\h8000)

\* C10 amended: every program of 0 to 0x7FFC bytes (one that ends before the
\* reset vector) is loaded as claimed
C10_LoadCopiesProgram == LoadedAsClaimed(\h7FFC)

\* the longest such program loaded over poked memory
C10_Witness ==
    /\ op = "load"
    /\ ProgramLen(arg) = \h7FFC
    /\ Cell(pre.memory, \h8001) = \hE8
    /\ Cell(memory, \h8001) = \hC0
    /\ Cell(memory, \hFFFB) = \hAA
    /\ state = "Ready"

\* C1 as stated: no byte read or write of an address 0x0000 .. 0xFFFF
\* faults, a read on a new CPU returns 0, and a read after a write of the
\* same address returns the written byte
C1_EveryAddressBacked ==
    /\ op \in {"mem_read", "write_memory"} => state # "Faulted"
    /\ (op = "mem_read" /\ pre.memory = ZeroMemory) => ret = 0
    /\ op = "write_memory" =>
           /\ ~mem_read(Self, arg.address).panicked
           /\ mem_read(Self, arg.address).val = arg.data

\* C2: load_and_run of [0xA9, v, 0x00] ends only by halting, with the
\* accumulator v, the zero flag set iff v = 0 and the negative flag bit 7 of
\* v; until then run has executed at most the load instruction
C2_LdaImmediateHalts ==
    \A v \in U8 :
        (op = "load_and_run" /\ arg = Short(LdaImmediate(v))) =>
            /\ state \in {"Fetching", "Halted"}
            /\ state = "Fetching" =>
                   program_counter \in {LoadAddress, LoadAddress + 2}
            /\ state = "Halted" =>
                   /\ register_a = v
                   /\ Bit(status, 1) = (IF v = 0 THEN 1 ELSE 0)
                   /\ Bit(status, 7) = Bit(v, 7)

\* the program with v = 0x80 has halted on a CPU that had all flags set
C2_Witness ==
    /\ op = "load_and_run"
    /\ arg = Short(LdaImmediate(\h80))
    /\ pre.status = \hFF
    /\ state = "Halted"
    /\ register_a = \h80
    /\ status = \h80

\* C4: the flag updater leaves bit 1 of status equal to (result = 0), bit 7
\* equal to bit 7 of result, and bits 0, 2, 3, 4, 5, 6 as they were
C4_FlagsFrame ==
    op = "update_zero_and_negative_flags" =>
        /\ state = "Ready"
        /\ Bit(status, 1) = (IF arg = 0 THEN 1 ELSE 0)
        /\ Bit(status, 7) = Bit(arg, 7)
        /\ \A i \in {0, 2, 3, 4, 5, 6} : Bit(status, i) = Bit(pre.status, i)

\* a nonzero, non-negative result on a status with the zero, negative and
\* carry flags set
C4_Witness ==
    /\ op = "update_zero_and_negative_flags"
    /\ arg = \h05
    /\ pre.status = \hC3
    /\ status = \h41

\* the operand byte the resolver was called on, and the index its mode uses
OperandByte == Cell(pre.memory, pre.program_counter)
IndexOf(mode) ==
    IF mode \in {"ZeroPageX", "AbsoluteX", "IndirectX"}
    THEN pre.register_x ELSE pre.register_y

\* C5: ZeroPageX / ZeroPageY resolution of a readable operand does not fault
\* and returns (operand + index) mod 256, an address in 0x0000 .. 0x00FF
C5_ZeroPageIndexedWraps ==
    (op = "get_operand_address" /\ arg \in {"ZeroPageX", "ZeroPageY"}
     /\ pre.program_counter < MemSize) =>
        /\ state = "Ready"
        /\ ret = (OperandByte + IndexOf(arg)) % 256
        /\ ret \in 0 .. 255

\* operand 0xFF indexed by X = 0xFF resolves to 0x00FE
C5_Witness ==
    /\ op = "get_operand_address"
    /\ arg = "ZeroPageX"
    /\ OperandByte = \hFF
    /\ pre.register_x = \hFF
    /\ ret = \hFE

\* C6: AbsoluteX / AbsoluteY resolution of a readable operand word does not
\* fault and returns (word + index) mod 65536
C6_AbsoluteIndexedCrossesPages ==
    (op = "get_operand_address" /\ arg \in {"AbsoluteX", "AbsoluteY"}
     /\ pre.program_counter + 1 < MemSize) =>
        /\ state = "Ready"
        /\ ret = (WordAt(pre.memory, pre.program_counter) + IndexOf(arg)) % 65536

\* base 0x12FF indexed by Y = 1 resolves into the next page, 0x1300
C6_Witness ==
    /\ op = "get_operand_address"
    /\ arg = "AbsoluteY"
    /\ WordAt(pre.memory, pre.program_counter) = \h12FF
    /\ pre.register_y = 1
    /\ ret = \h1300

\* the word whose low byte is at zero-page address p and whose high byte is
\* at (p + 1) mod 256
ZeroPageWord(p) == Cell(pre.memory, p) + 256 * Cell(pre.memory, (p + 1) % 256)

\* C7: IndirectX returns the zero-page word at (operand + X) mod 256, and
\* IndirectY the zero-page word at operand plus Y mod 65536; both bytes of
\* the word come from page 0
C7_IndirectPointerInZeroPage ==
    (op = "get_operand_address" /\ pre.program_counter < MemSize) =>
        /\ arg = "IndirectX" =>
               /\ state = "Ready"
               /\ ret = ZeroPageWord((OperandByte + pre.register_x) % 256)
        /\ arg = "IndirectY" =>
               /\ state = "Ready"
               /\ ret = (ZeroPageWord(OperandByte) + pre.register_y) % 65536

\* the pointer is 0xFF: the high byte is the one at 0x0000, which differs
\* from the one at 0x0100
C7_Witness ==
    /\ op = "get_operand_address"
    /\ arg = "IndirectX"
    /\ (OperandByte + pre.register_x) % 256 = \hFF
    /\ pre.register_x # 0
    /\ Cell(pre.memory, \h0000) # Cell(pre.memory, \h0100)
    /\ ret = Cell(pre.memory, \hFF) + 256 * Cell(pre.memory, \h0000)

\* C8 as stated: write_word(addr, v) with addr + 1 <= 0xFFFF does not fault,
\* stores the low byte at addr and the high byte at addr + 1, changes no
\* other byte, and read_word(addr) then returns v
C8_WordRoundTrip ==
    (op = "mem_write_u16" /\ arg.position + 1 <= \hFFFF) =>
        /\ state = "Ready"
        /\ Cell(memory, arg.position) = arg.data % 256
        /\ Cell(memory, arg.position + 1) = arg.data \div 256
        /\ \A j \in DOMAIN memory \cup DOMAIN pre.memory :
               j \notin {arg.position, arg.position + 1}
               => Cell(memory, j) = Cell(pre.memory, j)
        /\ ~mem_read_u16(Self, arg.position).panicked
        /\ mem_read_u16(Self, arg.position).val = arg.data


\* the opcodes run's match has an arm for
HandledCodes == LdaCodes \cup StaCodes \cup {\hAA, \hE8, \h00}

\* the last call is a run that has been entered
InRun ==
    /\ op \in {"run", "load_and_run"}
    /\ state \in {"Fetching", "Halted"} \/ instr.address >= 0

\* A, X, Y and status of c and d agree
SameDataRegisters(c, d) ==
    /\ c.register_a = d.register_a
    /\ c.register_x = d.register_x
    /\ c.register_y = d.register_y
    /\ c.status = d.status

\* C11: run called right after reset on a CPU whose memory is all zero starts
\* at 0x0000, fetches the halt opcode there and returns with A, X, Y and
\* status 0; it never faults
C11_ResetRunWithoutLoad ==
    (op = "run" /\ prior_op = "reset" /\ pre.memory = ZeroMemory) =>
        /\ pre.program_counter = 0
        /\ state \in {"Fetching", "Halted"}
        /\ state = "Fetching" => instr = NoInstr
        /\ state = "Halted" =>
               /\ instr.address = 0 /\ instr.code = \h00
               /\ register_a = 0 /\ register_x = 0 /\ register_y = 0
               /\ status = 0
               /\ memory = ZeroMemory

\* registers assigned, then reset, then run: run has returned
C11_Witness ==
    /\ op = "run" /\ prior_op = "reset" /\ pre.memory = ZeroMemory
    /\ calls = 3
    /\ state = "Halted"
    /\ instr.code = \h00
    /\ program_counter = 1

\* C12: run has returned only from the iteration that fetched 0x00, and that
\* iteration left the registers and memory as they were but for the counter,
\* which is one past the opcode
C12_ReturnOnlyAtHalt ==
    (state = "Halted" /\ op \in {"run", "load_and_run"}) =>
        /\ instr.code = \h00
        /\ SameDataRegisters(Self, instr.before)
        /\ memory = instr.before.memory
        /\ program_counter = instr.address + 1
        /\ instr.before.program_counter = instr.address

\* run has returned after executing other instructions first
C12_Witness ==
    /\ state = "Halted"
    /\ op = "run"
    /\ instr.code = \h00
    /\ instr.address > pre.program_counter + 4
    /\ register_a # pre.register_a
    /\ register_x # pre.register_x

\* C13: an iteration that fetched an opcode run has no arm for (in the table
\* or not) ends the run faulted, with A, X, Y, status and memory as they
\* were before the fetch, and the loop takes no further step
C13_UnhandledOpcodeFaults ==
    (InRun /\ instr.code >= 0 /\ instr.code \notin HandledCodes) =>
        /\ state = "Faulted"
        /\ SameDataRegisters(Self, instr.before)
        /\ memory = instr.before.memory
        /\ ~ENABLED RunStep

\* the opcode of the table without a handler, fetched after a load
C13_Witness ==
    /\ InRun
    /\ instr.code = \hEA
    /\ instr.code \in DOMAIN OPCODES_MAP
    /\ state = "Faulted"
    /\ register_a = \h80
    /\ status = \h80

\* C14: load_and_run of [0xA9, v, 0xAA, 0x00] ends only by halting, with X
\* and the accumulator v, the zero flag set iff v = 0 and the negative flag
\* bit 7 of v
C14_LdaTaxHalts ==
    \A v \in U8 :
        (op = "load_and_run" /\ arg = Short(LdaTax(v))) =>
            /\ state \in {"Fetching", "Halted"}
            /\ state = "Halted" =>
                   /\ register_x = v
                   /\ register_a = v
                   /\ Bit(status, 1) = (IF v = 0 THEN 1 ELSE 0)
                   /\ Bit(status, 7) = Bit(v, 7)
                   /\ instr.address = LoadAddress + 3

\* the program with v = 0xC0 has halted on a CPU whose X was 0xFF
C14_Witness ==
    /\ op = "load_and_run"
    /\ arg = Short(LdaTax(\hC0))
    /\ pre.register_x = \hFF
    /\ state = "Halted"
    /\ register_x = \hC0
    /\ register_a = \hC0
    /\ status = \h80

\* the bytes 0xE8, 0xE8, 0x00 stand at the counter of c
AtInxInx(c) ==
    /\ Cell(c.memory, c.program_counter) = \hE8
    /\ Cell(c.memory, c.program_counter + 1) = \hE8
    /\ Cell(c.memory, c.program_counter + 2) = \h00

\* C15 as claimed: load_and_run of [0xE8, 0xE8, 0x00] called with X = 0xFF
\* returns with X = 0x01 and the zero flag clear
C15_Original ==
    (/\ op = "load_and_run"
     /\ arg = Short(InxInx)
     /\ pre.register_x = \hFF
     /\ state = "Halted") =>
        /\ register_x = \h01
        /\ Bit(status, 1) = 0

\* C15: run entered with X = 0xFF at the bytes 0xE8, 0xE8, 0x00 takes X
\* through 0xFF, 0x00, 0x01 and returns with X = 0x01 and the zero flag
\* clear; load_and_run of that program resets X first and returns with
\* X = 0x02 whatever X was
C15_InxWraps ==
    /\ (op = "run" /\ pre.register_x = \hFF /\ AtInxInx(pre)) =>
           /\ state \in {"Fetching", "Halted"}
           /\ program_counter = pre.program_counter =>
                  register_x = \hFF
           /\ program_counter = pre.program_counter + 1 =>
                  register_x = \h00 /\ Bit(status, 1) = 1
           /\ program_counter >= pre.program_counter + 2 =>
                  register_x = \h01 /\ Bit(status, 1) = 0
           /\ state = "Halted" => program_counter = pre.program_counter + 3
    /\ (op = "load_and_run" /\ arg = Short(InxInx) /\ state = "Halted") =>
           register_x = \h02 /\ Bit(status, 1) = 0

\* run has returned from the two increments of X = 0xFF
C15_Witness ==
    /\ op = "run"
    /\ pre.register_x = \hFF
    /\ AtInxInx(pre)
    /\ state = "Halted"
    /\ register_x = \h01
    /\ instr.address = pre.program_counter + 2

\* C16: a resolution under any mode but NoneAddressing leaves A, X, Y,
\* status, the counter and memory as they were, and a second resolution
\* under the same mode returns the address the first one returned
C16_ResolutionIsPure ==
    [][(op' = "get_operand_address" /\ arg' # "NoneAddressing") =>
           /\ register_a' = register_a
           /\ register_x' = register_x
           /\ register_y' = register_y
           /\ status' = status
           /\ program_counter' = program_counter
           /\ memory' = memory
           /\ (op = "get_operand_address" /\ state' = "Ready") =>
                  arg' = arg /\ ret' = ret]_vars

\* an indexed indirect address has been resolved twice
C16_Witness ==
    /\ op = "get_operand_address"
    /\ prior_op = "get_operand_address"
    /\ calls = 2
    /\ arg = "IndirectY"
    /\ state = "Ready"
    /\ register_y = \hFF
    /\ ret > \h00FF

\* the last call is a run that reset started and that is between two
\* instructions or has returned
AtBoundaryAfterReset ==
    /\ op = "load_and_run" \/ (op = "run" /\ prior_op = "reset")
    /\ state \in {"Fetching", "Halted"}

\* C17: between the instructions of a run that reset started, the zero and
\* negative flags are those of the result of the last LDA, TAX or INX of the
\* run, and both are clear while there was none; STA and the halt keep them
C17_FlagsOfLastResult ==
    AtBoundaryAfterReset =>
        IF flags_from = -1
        THEN Bit(status, 1) = 0 /\ Bit(status, 7) = 0
        ELSE /\ Bit(status, 1) = (IF flags_from = 0 THEN 1 ELSE 0)
             /\ Bit(status, 7) = Bit(flags_from, 7)

\* a store has executed after an increment whose result differs from the
\* stored accumulator in the zero flag
C17_Witness ==
    /\ AtBoundaryAfterReset
    /\ instr.code \in StaCodes
    /\ flags_from = register_x
    /\ register_a = 0
    /\ register_x # 0
    /\ Bit(status, 1) = 0

\* C18: run ends: every iteration that does not panic leaves the counter
\* higher than it found it, at most 65536 iterations are begun, and the loop
\* returns at the opcode 0x00 or panics
C18_RunTerminates ==
    /\ [][(state = "Fetching" /\ state' # "Faulted") =>
              /\ program_counter' > program_counter
              /\ program_counter' <= 65535]_vars
    /\ [](op = "run" =>
              /\ executed <= program_counter - pre.program_counter + 1
              /\ executed <= 65536)
    /\ (state = "Fetching" ~> state \in {"Halted", "Faulted"})

\* run has executed increments up to the end of the array and panicked there
C18_Witness ==
    /\ op = "run"
    /\ pre.program_counter = \hFF00
    /\ state = "Faulted"
    /\ program_counter = \hFFFF
    /\ executed = 256

\* the address the instruction executed last resolves its operand to, on
\* the CPU as it was when the operand was about to be read
ResolvedByLast ==
    get_operand_address(
        [instr.before EXCEPT !.program_counter = instr.address + 1],
        OPCODES_MAP[instr.code].mode)

\* the last instruction stored the accumulator at address and changed no
\* other byte of memory and none of A, X, Y and status
StoredAt(address) ==
    /\ state = "Fetching"
    /\ Cell(memory, address) = instr.before.register_a
    /\ \A i \in (DOMAIN memory \cup DOMAIN instr.before.memory) \ {address} :
           Cell(memory, i) = Cell(instr.before.memory, i)
    /\ SameDataRegisters(Self, instr.before)

\* C19: a store whose operand resolves to an address writes the accumulator
\* to that address and changes nothing else, whatever the address is
C19_StoreWritesOneByte ==
    (op = "run" /\ instr.code \in StaCodes /\ ~ResolvedByLast.panicked) =>
        StoredAt(ResolvedByLast.val)

\* the un-indexed address of a Y-indexed mode on the operand at the counter:
\* the operand byte, the operand word, the zero-page word the operand names
UnindexedBase(mode) ==
    CASE mode = "ZeroPageY" -> Cell(memory, program_counter)
      [] mode = "AbsoluteY" -> WordAt(memory, program_counter)
      [] mode = "IndirectY" ->
             LET p == Cell(memory, program_counter)
             IN  Cell(memory, p) + 256 * Cell(memory, (p + 1) % 256)

\* C20: once run is entered Y stays what it was on entry, 0 under
\* load_and_run, where every Y-indexed mode therefore resolves the operand
\* at the counter to its un-indexed base
C20_YNeverWritten ==
    InRun =>
        /\ register_y = (IF op = "run" THEN pre.register_y ELSE 0)
        /\ (op = "load_and_run" /\ state = "Fetching") =>
               \A mode \in {"ZeroPageY", "AbsoluteY", "IndirectY"} :
                   LET address == get_operand_address(Self, mode)
                   IN  ~address.panicked => address.val = UnindexedBase(mode)

\* load_and_run on a CPU whose Y was 0xFF has executed a store through the
\* Y-indexed indirect mode and gone on
C20_Witness ==
    /\ op = "load_and_run"
    /\ pre.register_y = \hFF
    /\ instr.code = \h91
    /\ state = "Fetching"
    /\ register_y = 0
    /\ register_x # 0

=============================================================================
